---- MODULE Spec2Model ----
(***************************************************************************)
(* Model of the token codec (src/src/util.ts, Security.Token), the user    *)
(* entity (src/src/database/entities/User.ts) and the HTTP route loader    *)
(* with its guard chain (src/src/util.ts, HttpServer).                     *)
(*                                                                         *)
(* Strings are sequences of ASCII codes, so that split, base64 and the     *)
(* number conversion are computed character by character as the code does. *)
(***************************************************************************)
EXTENDS Integers, Sequences, FiniteSets, TLC

(* ------------------------------ bounds --------------------------------- *)
MaxUsers == 1       \* user entities that may be created
NumSalts == 2       \* distinct values Security.random may return for a salt
NumFlakes == 1      \* distinct ids the snowflake generator may return
MaxClock == 0       \* latest value of Date.now()
MaxGuards == 3      \* longest guard list of a route
NumGuardRefs == 3   \* distinct guard functions
NumRefs == 2        \* distinct values Security.random may return for a tracking reference
MaxProceed == 2     \* proceed() calls made on one request
MaxPairGuards == 2  \* longest guard list of the route that serves two requests at a time
MaxCalls == 3       \* requests made to the example routes
MaxStored == 2      \* users of a store that tokens are resolved against
MaxItems == 2       \* entries of the route directory, subdirectories' included

(* ---------------------------- characters ------------------------------- *)
DOT == 46
EQ == 61
PLUS == 43
SLASH == 47
MINUS == 45
UNDERSCORE == 95

Str_Infinity == <<73, 110, 102, 105, 110, 105, 116, 121>>
Str_abc == <<97, 98, 99>>
Str_x == <<120>>

RECURSIVE Digits(_)
\* n + "" for a non-negative integer n
Digits(n) == IF n < 10 THEN <<48 + n>> ELSE Digits(n \div 10) \o <<48 + (n % 10)>>

RECURSIVE Join(_, _)
\* chunks.join(sep)
Join(chunks, sep) ==
    IF Len(chunks) = 0 THEN <<>>
    ELSE IF Len(chunks) = 1 THEN chunks[1]
    ELSE chunks[1] \o <<sep>> \o Join(Tail(chunks), sep)

RECURSIVE SplitFrom(_, _, _, _)
SplitFrom(s, sep, i, cur) ==
    IF i > Len(s) THEN <<cur>>
    ELSE IF s[i] = sep THEN <<cur>> \o SplitFrom(s, sep, i + 1, <<>>)
    ELSE SplitFrom(s, sep, i + 1, Append(cur, s[i]))

\* String.prototype.split(sep): "" gives one empty chunk
Split(s, sep) == SplitFrom(s, sep, 1, <<>>)

RECURSIVE LastIndexFrom(_, _, _)
LastIndexFrom(s, sep, i) ==
    IF i = 0 THEN 0
    ELSE IF s[i] = sep THEN i
    ELSE LastIndexFrom(s, sep, i - 1)

\* position of the last sep in s, 0 when there is none
LastIndexOf(s, sep) == LastIndexFrom(s, sep, Len(s))

(* ------------------------------ base64 --------------------------------- *)
\* the character of a 6-bit value in the standard alphabet
B64Char(v) ==
    IF v < 26 THEN 65 + v
    ELSE IF v < 52 THEN 97 + (v - 26)
    ELSE IF v < 62 THEN 48 + (v - 52)
    ELSE IF v = 62 THEN PLUS ELSE SLASH

\* the 6-bit value of a character, 64 for a character outside the alphabet;
\* the decoder reads the URL-safe characters '-' and '_' as 62 and 63
UnBase64(c) ==
    IF c >= 65 /\ c <= 90 THEN c - 65
    ELSE IF c >= 97 /\ c <= 122 THEN c - 97 + 26
    ELSE IF c >= 48 /\ c <= 57 THEN c - 48 + 52
    ELSE IF c = PLUS \/ c = MINUS THEN 62
    ELSE IF c = SLASH \/ c = UNDERSCORE THEN 63
    ELSE 64

RECURSIVE B64EncodeBytes(_)
\* Buffer.toString("base64"): three bytes to four characters, '=' padding
B64EncodeBytes(b) ==
    IF Len(b) = 0 THEN <<>>
    ELSE IF Len(b) = 1 THEN
        <<B64Char(b[1] \div 4), B64Char((b[1] % 4) * 16), EQ, EQ>>
    ELSE IF Len(b) = 2 THEN
        <<B64Char(b[1] \div 4), B64Char((b[1] % 4) * 16 + (b[2] \div 16)),
          B64Char((b[2] % 16) * 4), EQ>>
    ELSE
        <<B64Char(b[1] \div 4), B64Char((b[1] % 4) * 16 + (b[2] \div 16)),
          B64Char((b[2] % 16) * 4 + (b[3] \div 64)), B64Char(b[3] % 64)>>
        \o B64EncodeBytes(SubSeq(b, 4, Len(b)))

RECURSIVE Sextets(_, _)
\* the 6-bit values the decoder reads: characters outside the alphabet are
\* skipped, and decoding stops at the first '='
Sextets(s, i) ==
    IF i > Len(s) \/ s[i] = EQ THEN <<>>
    ELSE IF UnBase64(s[i]) < 64 THEN <<UnBase64(s[i])>> \o Sextets(s, i + 1)
    ELSE Sextets(s, i + 1)

RECURSIVE B64DecodeSextets(_)
B64DecodeSextets(v) ==
    IF Len(v) < 2 THEN <<>>
    ELSE IF Len(v) = 2 THEN <<v[1] * 4 + (v[2] \div 16)>>
    ELSE IF Len(v) = 3 THEN
        <<v[1] * 4 + (v[2] \div 16), (v[2] % 16) * 16 + (v[3] \div 4)>>
    ELSE
        <<v[1] * 4 + (v[2] \div 16), (v[2] % 16) * 16 + (v[3] \div 4),
          (v[3] % 4) * 64 + v[4]>>
        \o B64DecodeSextets(SubSeq(v, 5, Len(v)))

\* Buffer.toString("ascii"): the high bit of every byte is dropped
ToAscii(b) == [i \in 1..Len(b) |-> b[i] % 128]

\* const decodeBase64 = (data) => Buffer.from(data, "base64").toString("ascii")
decodeBase64(data) == ToAscii(B64DecodeSextets(Sextets(data, 1)))

\* const encodeBase64 = (data) => Buffer.from(data).toString("base64")
encodeBase64(data) == B64EncodeBytes(data)

(* --------------------------- nobi signer ------------------------------- *)
\* The keyed digest of the signer, idealised as collision free: the digest
\* of (key, value) is the pairing of the two, separated by a byte that
\* occurs in neither.
Hmac(key, value) == key \o <<0>> \o value

\* URL-safe base64 without padding, the text form of a signature
B64UrlEncode(b) ==
    LET std == B64EncodeBytes(b)
        url == [i \in 1..Len(std) |->
                   IF std[i] = PLUS THEN MINUS
                   ELSE IF std[i] = SLASH THEN UNDERSCORE ELSE std[i]]
    IN  SelectSeq(url, LAMBDA c : c # EQ)

getSignature(key, value) == B64UrlEncode(Hmac(key, value))

\* nobi(key).sign(value)
sign(key, value) == value \o <<DOT>> \o getSignature(key, value)

\* unsign, but the signature is compared after base64 decoding, so that
\* texts that decode to the same bytes are taken for the signature
unsign_decoding(key, signed) ==
    LET at == LastIndexOf(signed, DOT) IN
    IF at = 0 THEN [ok |-> FALSE, value |-> <<>>]
    ELSE LET value == SubSeq(signed, 1, at - 1)
             sig == SubSeq(signed, at + 1, Len(signed))
         IN  IF B64DecodeSextets(Sextets(sig, 1)) = Hmac(key, value)
             THEN [ok |-> TRUE, value |-> value]
             ELSE [ok |-> FALSE, value |-> <<>>]

\* nobi(key).unsign(signed): the value before the last separator when the
\* text after it is the signature of that value, a BadSignature otherwise
unsign(key, signed) ==
    LET at == LastIndexOf(signed, DOT) IN
    IF at = 0 THEN [ok |-> FALSE, value |-> <<>>]
    ELSE LET value == SubSeq(signed, 1, at - 1)
             sig == SubSeq(signed, at + 1, Len(signed))
         IN  IF sig = getSignature(key, value)
             THEN [ok |-> TRUE, value |-> value]
             ELSE [ok |-> FALSE, value |-> <<>>]

(* --------------------------- numbers, dates ---------------------------- *)
IsDigits(s) == Len(s) > 0 /\ \A i \in 1..Len(s) : s[i] >= 48 /\ s[i] <= 57

RECURSIVE DigitsValue(_)
DigitsValue(s) ==
    IF Len(s) = 0 THEN 0
    ELSE DigitsValue(SubSeq(s, 1, Len(s) - 1)) * 10 + (s[Len(s)] - 48)

\* (str as any) * 1: the empty string is 0, a decimal literal its value,
\* "Infinity" is infinite and any other text of the model's alphabet is NaN
ToNumber(s) ==
    IF Len(s) = 0 THEN [kind |-> "num", val |-> 0]
    ELSE IF IsDigits(s) THEN [kind |-> "num", val |-> DigitsValue(s)]
    ELSE IF s = Str_Infinity THEN [kind |-> "Infinity", val |-> 0]
    ELSE [kind |-> "NaN", val |-> 0]

isNaN(n) == n.kind = "NaN"

\* new Date().setTime(n) followed by getTime(): NaN unless n is finite
DateOf(n) == IF n.kind = "num" THEN n ELSE [kind |-> "NaN", val |-> 0]

(* ------------------------------- state --------------------------------- *)
VARIABLES
    \* the user store and the token codec
    entity,     \* the User object held in memory for each user, or NoUser
    table,      \* the persisted row of each user, or NoUser
    flake,      \* the last id the snowflake generator returned
    issued,     \* the token createToken returned last, with the salt that
                \* signed and the salt the row had then; empty before a call
    lastDecode, \* the getUser call being answered and what it returns
    \* the guard chain of one route
    guards,     \* route.opts.guards of the route: whether it is defined, and
                \* the list of guard references
    reqs,       \* per request: the closure state of the dispatch wrapper,
                \* the invocations made so far and the responses written
    \* route discovery
    tree,       \* the entries of the route directory, in readdir order
    tasks,      \* the loadDirectory calls: 0 for the root, k for the
                \* subdirectory that is entry k of the root
    layers,     \* the routes registered in express, in registration order
    log,        \* the warnings logged
    startup,    \* "init", "loading", "listening" or "failed"
    served,     \* the request being dispatched and the layer it reached
    \* the example routes
    testIncr,   \* the counter of the module that exports the example routes
    calls,      \* per request to an example route: whether it was received
                \* and the path it asked for
    answers     \* the responses sent by the example routes, in the order sent

tokenVars == <<entity, table, flake, issued, lastDecode>>
guardVars == <<guards, reqs>>
routeVars == <<tree, tasks, layers, log, startup, served>>
exampleVars == <<testIncr, calls, answers>>
vars == <<tokenVars, guardVars, routeVars, exampleVars>>

Users == 1..MaxUsers
NoUser == [exists |-> FALSE, id |-> 0, snowflake |-> <<>>, salt |-> <<>>]
NoCall == [called |-> FALSE]
Null == [kind |-> "null"]

\* values Security.random may return for a salt (hex text)
SaltValue(i) == <<96 + i, 48 + i>>
Salts == {SaltValue(i) : i \in 1..NumSalts}

\* ids the snowflake generator may return; it returns them in increasing
\* order
FlakeValue(i) == IF i = 1 THEN 7 ELSE IF i = 2 THEN 42 ELSE 100 + i
FlakeIds == {FlakeValue(i) : i \in 1..NumFlakes}

\* findOne, but the criterion is not applied: the first row is returned
findOne_any(tbl, snowflake) ==
    IF \E u \in DOMAIN tbl : tbl[u].exists
    THEN tbl[CHOOSE u \in DOMAIN tbl :
                 tbl[u].exists /\ \A v \in DOMAIN tbl : tbl[v].exists => u <= v]
    ELSE NoUser

\* User.findOne({snowflake})
findOne(tbl, snowflake) ==
    IF \E u \in DOMAIN tbl : tbl[u].exists /\ tbl[u].snowflake = snowflake
    THEN tbl[CHOOSE u \in DOMAIN tbl : tbl[u].exists /\ tbl[u].snowflake = snowflake]
    ELSE NoUser

(* ---------------------------- Security.Token --------------------------- *)
\* decodeToken, but the signature is never checked
decodeToken_noverify(token, tbl) ==
    LET chunks == Split(token, DOT) IN
    IF Len(chunks) # 3 THEN Null
    ELSE
    LET snowflake == decodeBase64(chunks[1])
        timestampEpoch == ToNumber(decodeBase64(chunks[2]))
        timestamp == DateOf(timestampEpoch)
        user == findOne(tbl, snowflake)
    IN
    IF isNaN(timestampEpoch) \/ isNaN(timestamp) \/ ~user.exists THEN Null
    ELSE [kind |-> "token", snowflake |-> snowflake, timestamp |-> timestamp.val,
          hmac |-> chunks[1] \o <<DOT>> \o chunks[2], user |-> user]

\* decodeToken, but the BadSignature of unsign is not caught
decodeToken_throws(token, tbl) ==
    LET chunks == Split(token, DOT) IN
    IF Len(chunks) # 3 THEN Null
    ELSE
    LET snowflake == decodeBase64(chunks[1])
        timestampEpoch == ToNumber(decodeBase64(chunks[2]))
        timestamp == DateOf(timestampEpoch)
        user == findOne(tbl, snowflake)
    IN
    IF isNaN(timestampEpoch) \/ isNaN(timestamp) \/ ~user.exists THEN Null
    ELSE
    LET hmacData == unsign(user.salt, token) IN
    IF ~hmacData.ok THEN [kind |-> "throw"]
    ELSE IF hmacData.value # chunks[1] \o <<DOT>> \o chunks[2] THEN Null
    ELSE [kind |-> "token", snowflake |-> snowflake, timestamp |-> timestamp.val,
          hmac |-> hmacData.value, user |-> user]

\* decodeToken(token), with the table the lookup reads
decodeToken(token, tbl) ==
    LET chunks == Split(token, DOT) IN
    IF Len(chunks) # 3 THEN Null
    ELSE
    LET snowflakeBase64 == chunks[1]
        timestampBase64 == chunks[2]
        snowflake == decodeBase64(snowflakeBase64)
        timestampEpoch == ToNumber(decodeBase64(timestampBase64))
    IN
    IF isNaN(timestampEpoch) THEN Null
    ELSE
    LET timestamp == DateOf(timestampEpoch) IN
    IF isNaN(timestamp) THEN Null
    ELSE
    LET user == findOne(tbl, snowflake) IN
    IF ~user.exists THEN Null
    ELSE
    LET hmacData == unsign(user.salt, token) IN
    IF ~hmacData.ok THEN Null
    ELSE IF hmacData.value # snowflakeBase64 \o <<DOT>> \o timestampBase64 THEN Null
    ELSE [kind |-> "token", snowflake |-> snowflake, timestamp |-> timestamp.val,
          hmac |-> hmacData.value, user |-> user]

\* getUser(token): parsedToken && parsedToken.user
getUser(token, tbl) ==
    LET parsedToken == decodeToken(token, tbl) IN
    IF parsedToken.kind = "token" THEN parsedToken.user ELSE parsedToken

\* createToken, but the snowflake goes into the token as it is
createToken_rawSnowflake(user, t) ==
    sign(user.salt, user.snowflake \o <<DOT>> \o encodeBase64(Digits(t)))

\* createToken(user) for a User object, at time t
createToken(user, t) ==
    LET snowflakeBase64 == encodeBase64(user.snowflake)
        timestampBase64 == encodeBase64(Digits(t))
        partialToken == snowflakeBase64 \o <<DOT>> \o timestampBase64
    IN  sign(user.salt, partialToken)

\* values Date.now() may return
Times == 0..MaxClock

(* ------------------------- tokens given to decode ---------------------- *)
SnowflakeTexts == {Digits(f) : f \in FlakeIds} \cup {<<>>}
TimestampTexts == {Digits(t) : t \in Times} \cup {<<>>, Str_Infinity, Str_abc}

\* a token signed by someone who holds the salt k, over any two segments
Forge(sf, ts, k) == sign(k, encodeBase64(sf) \o <<DOT>> \o encodeBase64(ts))
Forged == {Forge(sf, ts, k) : sf \in SnowflakeTexts, ts \in TimestampTexts, k \in Salts}

\* the character whose 6-bit value is one more: a one-bit change of c
FlipChar(c) ==
    LET v == B64Char((UnBase64(c) + 1) % 64) IN
    IF v = PLUS THEN MINUS ELSE IF v = SLASH THEN UNDERSCORE ELSE v

\* a token with its third segment replaced
WithSignature(token, sig) ==
    LET chunks == Split(token, DOT) IN Join(<<chunks[1], chunks[2], sig>>, DOT)

\* the signatures that differ from sig: one character changed at any
\* position, the last character dropped, a character or padding added,
\* and the empty signature
TamperedSignatures(sig) ==
    {[sig EXCEPT ![i] = FlipChar(sig[i])] : i \in 1..Len(sig)}
    \cup {SubSeq(sig, 1, Len(sig) - 1), sig \o <<65>>, sig \o <<EQ>>, <<>>}

Tampered ==
    UNION {{WithSignature(t.token, sig) :
                sig \in TamperedSignatures(Split(t.token, DOT)[3])} : t \in issued}

\* texts that do not have three segments
Malformed ==
    {<<>>, Str_x}
    \cup UNION {{Join(SubSeq(Split(t.token, DOT), 1, 2), DOT),
                 t.token \o <<DOT>> \o Str_x,
                 <<DOT>> \o t.token} : t \in issued}

InputTokens == {t.token : t \in issued} \cup Forged \cup Tampered \cup Malformed

\* one call is answered at a time
Callable == IF lastDecode.called THEN {} ELSE InputTokens

(* ------------------------------ actions -------------------------------- *)
\* User.createUser: newSalt, newSnowflake, then save, which generates the
\* next id
CreateUser(u, s, f) ==
    /\ ~lastDecode.called
    /\ ~entity[u].exists
    /\ \A v \in 1..(u - 1) : entity[v].exists
    /\ f > flake
    /\ flake' = f
    /\ LET user == [exists |-> TRUE, id |-> u, snowflake |-> Digits(f), salt |-> s]
       IN  /\ entity' = [entity EXCEPT ![u] = user]
           /\ table' = [table EXCEPT ![u] = user]
    /\ UNCHANGED <<issued, lastDecode, guardVars, routeVars, exampleVars>>

\* user.newSalt(): a new salt on the object; does not save
NewSalt(u, s) ==
    /\ ~lastDecode.called
    /\ entity[u].exists
    /\ entity' = [entity EXCEPT ![u].salt = s]
    /\ UNCHANGED <<table, flake, issued, lastDecode, guardVars, routeVars, exampleVars>>

\* user.save(): the object's columns become the row
Save(u) ==
    /\ ~lastDecode.called
    /\ entity[u].exists
    /\ table' = [table EXCEPT ![u] = entity[u]]
    /\ UNCHANGED <<entity, flake, issued, lastDecode, guardVars, routeVars, exampleVars>>

\* user.token(): createToken(this), when Date.now() is t. createToken reads
\* the object and the clock and changes nothing, so calls do not affect
\* each other: the token of the last call is the one followed
CreateToken(u, t) ==
    /\ ~lastDecode.called
    /\ entity[u].exists
    /\ issued' = {[token |-> createToken(entity[u], t),
                   snowflake |-> entity[u].snowflake,
                   salt |-> entity[u].salt,
                   stored |-> table[u].salt,
                   id |-> u]}
    /\ UNCHANGED <<entity, table, flake, lastDecode, guardVars, routeVars, exampleVars>>

\* User.findByToken(token): getUser(token), which calls decodeToken(token)
FindByToken(token) ==
    /\ ~lastDecode.called
    /\ lastDecode' = [called |-> TRUE, token |-> token,
                      decoded |-> decodeToken(token, table),
                      user |-> getUser(token, table)]
    /\ UNCHANGED <<entity, table, flake, issued, guardVars, routeVars, exampleVars>>

\* the caller has the answer of findByToken
Answered ==
    /\ lastDecode.called
    /\ lastDecode' = NoCall
    /\ UNCHANGED <<entity, table, flake, issued, guardVars, routeVars, exampleVars>>

TokenNext ==
    \/ \E u \in Users, s \in Salts, f \in FlakeIds : CreateUser(u, s, f)
    \/ \E u \in Users, s \in Salts : NewSalt(u, s)
    \/ \E u \in Users : Save(u)
    \/ \E u \in Users, t \in Times : CreateToken(u, t)
    \/ \E token \in Callable : FindByToken(token)
    \/ Answered

(* ----------------------- tokens against any store ---------------------- *)
\* a store of up to MaxStored users: the snowflake column is unique, the
\* salts are any
Stored == 1..MaxStored
StoredUser(u, salt) ==
    [exists |-> TRUE, id |-> u, snowflake |-> Digits(FlakeValue(u)), salt |-> salt]
Stores ==
    [Stored -> {NoUser}] \cup
    {tbl \in [Stored -> {NoUser} \cup {StoredUser(u, k) : u \in Stored, k \in Salts}] :
        \A u \in Stored : tbl[u].exists => tbl[u].id = u}

\* the tokens createToken makes, at any time, for a user of the store under
\* the salt it has or had
IssuedFor(u) == {createToken(StoredUser(u, k), t) : k \in Salts, t \in Times}

\* the tokens of the users, and any segments signed with any salt
Signed ==
    UNION {IssuedFor(u) : u \in Stored}
    \cup {Forge(sf, ts, k) : sf \in {Digits(FlakeValue(u)) : u \in Stored} \cup {<<>>},
                             ts \in {<<>>, Str_abc}, k \in Salts}

\* a token with the first segment of another
WithSubject(token, other) ==
    LET chunks == Split(token, DOT)
    IN  Join(<<Split(other, DOT)[1], chunks[2], chunks[3]>>, DOT)

\* tokens of one user carrying the subject or the signature of another
\* token, and a token without its signature
Spliced ==
    LET made == UNION {IssuedFor(u) : u \in Stored}
    IN  {WithSubject(t, o) : t \in made, o \in made}
        \cup {WithSignature(t, Split(o, DOT)[3]) : t \in made, o \in made}
        \cup {Join(SubSeq(Split(t, DOT), 1, 2), DOT) : t \in made}

StoreTokens == Signed \cup Spliced

BindingNext ==
    \/ \E token \in (IF lastDecode.called THEN {} ELSE StoreTokens) : FindByToken(token)
    \/ Answered


(* ============================ guard chain ============================== *)
Undefined == "undefined"
Handler == "handler"
GuardRef(i) == IF i = 1 THEN "G1" ELSE IF i = 2 THEN "G2" ELSE IF i = 3 THEN "G3" ELSE "G4"
GuardRefs == {GuardRef(i) : i \in 1..NumGuardRefs}
GuardIndex(g) == CHOOSE i \in 1..NumGuardRefs : GuardRef(i) = g

\* guard lists up to MaxGuards long, repeated references included. Guards
\* are compared by identity only, so a list is taken with its references
\* named in the order of their first occurrence.
GuardLists ==
    {g \in UNION {[1..n -> GuardRefs] : n \in 0..MaxGuards} :
        \A i \in 1..Len(g) :
            \/ GuardIndex(g[i]) = 1
            \/ \E j \in 1..(i - 1) : GuardIndex(g[j]) + 1 >= GuardIndex(g[i])}

\* the requests in flight on the route: one where a chain is followed alone,
\* two where requests are interleaved
Reqs == {1, 2}
Alone == {1}

\* the guard lists of the route that serves the interleaved requests
PairGuardLists == {g \in GuardLists : Len(g) \in 1..MaxPairGuards}

(* ------------------------------ errors --------------------------------- *)
NoNumber == [type |-> "undefined", value |-> 0]
Number(n) == [type |-> "number", value |-> n]
NoBody == [type |-> "undefined", message |-> <<>>, code |-> 0]

\* new RestError(message, code): the response is {message, code, fields},
\* and statusCode is not set
RestError(message, code) ==
    [rest |-> TRUE, statusCode |-> NoNumber, detail |-> "",
     body |-> [type |-> "object", message |-> message, code |-> code]]

\* RestError.INTERNAL_ERROR(ref)
INTERNAL_ERROR(ref) ==
    [RestError(<<"Internal error occurred. Tracking number: ", ref>>, 1002)
        EXCEPT !.statusCode = Number(500)]

\* an error that is no RestError, with what it tells about the server
PlainError(detail) ==
    [rest |-> FALSE, statusCode |-> NoNumber, detail |-> detail, body |-> NoBody]

\* values Security.random(16) may return
RefValue(i) == IF i = 1 THEN "a1b2" ELSE IF i = 2 THEN "c3d4" ELSE "e5f6"
Refs == {RefValue(i) : i \in 1..NumRefs}

\* what guards and handlers throw: the error of the route /test/2, a
\* RestError that was given a status code, and an internal error
\* prefix(routes, prefix) of Constants: every path with the prefix before it
prefix(routes, pre) == [key \in DOMAIN routes |-> pre \o routes[key]]
API_V0 == prefix([TEST_1 |-> "/test/1", TEST_2 |-> "/test/2"], "/api/v0")
ERROR_CODES == [TEST_2 |-> 1002]
TEST_2_ERROR == RestError(<<"Success!">>, ERROR_CODES.TEST_2)
FORBIDDEN == [RestError(<<"Forbidden">>, 1001) EXCEPT !.statusCode = Number(403)]
INTERNAL == PlainError("stack trace")
Errors == {TEST_2_ERROR, FORBIDDEN, INTERNAL}

NoError == [raised |-> FALSE]
NoResponse == [written |-> FALSE]

\* a request: the closure state of the dispatch wrapper, the invocations and
\* who wrote the response (0 for the error middleware); the error thrown on
\* it, by whom, and whether express caught it; the state of the error
\* middleware, the tracking reference it generated, the response it wrote
\* and the lines it logged
NoRequest == [open |-> FALSE, currentIndex |-> 0, previous |-> Undefined,
              acts |-> <<>>, responses |-> <<>>,
              error |-> NoError, boundary |-> "idle", tracking |-> <<>>,
              sent |-> NoResponse, errlog |-> <<>>]

\* an invocation of a guard or of the handler: who runs, its position in the
\* guard list (0 for the handler), the invocation whose proceed() started it
\* (0 for the dispatch wrapper), the proceed() calls it made, and whether it
\* has returned for good; whether it was invoked outside the call stack of
\* the dispatch call, from a later callback
Activation(who, pos, by) ==
    [who |-> who, pos |-> pos, by |-> by, proceeds |-> 0, returned |-> FALSE,
     async |-> FALSE]

\* next, but the handler is called together with the last guard of the list
\* instead of waiting for that guard to proceed
next_eager(g, rq, by) ==
    LET guard == IF rq.currentIndex < Len(g) THEN g[rq.currentIndex + 1] ELSE Undefined
    IN  IF guard = Undefined \/ rq.previous = guard
        THEN [rq EXCEPT !.currentIndex = @ + 1,
                        !.acts = Append(@, Activation(Handler, 0, by))]
        ELSE [rq EXCEPT !.currentIndex = @ + 1,
                        !.previous = guard,
                        !.acts = IF rq.currentIndex + 1 = Len(g)
                                 THEN @ \o <<Activation(guard, rq.currentIndex + 1, by),
                                             Activation(Handler, 0, by)>>
                                 ELSE Append(@, Activation(guard, rq.currentIndex + 1, by))]

\* the closure next of the dispatch wrapper, called by invocation `by`
next(g, rq, by) ==
    LET guard == IF rq.currentIndex < Len(g) THEN g[rq.currentIndex + 1] ELSE Undefined
    IN  IF guard = Undefined \/ rq.previous = guard
        THEN [rq EXCEPT !.currentIndex = @ + 1,
                        !.acts = Append(@, Activation(Handler, 0, by))]
        ELSE [rq EXCEPT !.currentIndex = @ + 1,
                        !.previous = guard,
                        !.acts = Append(@, Activation(guard, rq.currentIndex + 1, by))]

NoGuards == [defined |-> FALSE, list |-> <<>>]

\* express calls what loadRoute registered: the handler itself when the
\* route has no guards, the wrapper (which calls next() once) otherwise
Dispatch(r) ==
    /\ ~reqs[r].open
    /\ reqs' = [reqs EXCEPT ![r] =
           IF ~guards.defined
           THEN [NoRequest EXCEPT !.open = TRUE,
                                  !.acts = <<Activation(Handler, 0, 0)>>]
           ELSE next(guards.list, [NoRequest EXCEPT !.open = TRUE], 0)]
    /\ UNCHANGED <<guards, tokenVars, routeVars, exampleVars>>

\* a guard or the handler throws e, in its synchronous run or later from a
\* callback. Express catches what is thrown inside the call stack of the
\* dispatch call and hands it to the error middleware; anything else is an
\* uncaught exception. One error per request is followed.
Throw(r, a, e, later) ==
    /\ reqs[r].open
    /\ a \in 1..Len(reqs[r].acts)
    /\ ~reqs[r].acts[a].returned
    /\ ~reqs[r].error.raised
    /\ LET caught == ~later /\ ~reqs[r].acts[a].async
       IN  reqs' = [reqs EXCEPT ![r].acts[a].returned = TRUE,
                                ![r].error = [raised |-> TRUE, by |-> a, err |-> e,
                                              caught |-> caught],
                                ![r].boundary = IF caught THEN "called" ELSE "idle"]
    /\ UNCHANGED <<guards, tokenVars, routeVars, exampleVars>>

\* transmit, but the status is always the default one
transmit_default(rq, error) ==
    IF rq.responses # <<>> THEN rq
    ELSE [rq EXCEPT !.responses = <<0>>,
                    !.sent = [written |-> TRUE, status |-> 400, body |-> error.body]]

\* transmit(error) of the error middleware: res.status(...).json(error.body),
\* which throws when a response was sent before
transmit(rq, error) ==
    IF rq.responses # <<>> THEN rq
    ELSE [rq EXCEPT !.responses = <<0>>,
                    !.sent = [written |-> TRUE,
                              status |-> IF error.statusCode.type = "number"
                                         THEN error.statusCode.value ELSE 400,
                              body |-> error.body]]

\* the error middleware is called: a RestError is transmitted, for another
\* error Security.random(16) is awaited
ErrorMiddleware(r) ==
    /\ reqs[r].boundary = "called"
    /\ reqs' = [reqs EXCEPT ![r] =
           IF reqs[r].error.err.rest
           THEN [transmit(reqs[r], reqs[r].error.err) EXCEPT !.boundary = "done"]
           ELSE [reqs[r] EXCEPT !.boundary = "random"]]
    /\ UNCHANGED <<guards, tokenVars, routeVars, exampleVars>>

\* Security.random(16) resolves with the tracking reference: the internal
\* error is transmitted, then the reference and the error are logged; when
\* transmit throws nothing is logged
RandomResolved(r, tracking) ==
    /\ reqs[r].boundary = "random"
    /\ reqs' = [reqs EXCEPT ![r] =
           IF reqs[r].responses # <<>>
           THEN [reqs[r] EXCEPT !.boundary = "failed", !.tracking = tracking]
           ELSE [transmit(reqs[r], INTERNAL_ERROR(tracking)) EXCEPT
                    !.boundary = "done",
                    !.tracking = tracking,
                    !.errlog = <<"------- error reported",
                                 <<"tracking ref: ", tracking>>,
                                 reqs[r].error.err,
                                 "------- eof">>]]
    /\ UNCHANGED <<guards, tokenVars, routeVars, exampleVars>>

RECURSIVE ProceedCalls(_, _)
\* the proceed() calls made by the first a invocations of a request
ProceedCalls(rq, a) ==
    IF a = 0 THEN 0 ELSE rq.acts[a].proceeds + ProceedCalls(rq, a - 1)

\* Proceed, but currentIndex and previous are variables of the module,
\* shared by every request of the route
Proceed_shared(r, a, later) ==
    /\ reqs[r].open
    /\ a \in 1..Len(reqs[r].acts)
    /\ reqs[r].acts[a].who # Handler
    /\ ~reqs[r].acts[a].returned
    /\ ProceedCalls(reqs[r], Len(reqs[r].acts)) < MaxProceed
    /\ LET last == CHOOSE o \in Reqs :
                       \A p \in Reqs : reqs[p].currentIndex <= reqs[o].currentIndex
           rq == next(guards.list,
                      [reqs[r] EXCEPT !.acts[a].proceeds = @ + 1,
                                      !.currentIndex = reqs[last].currentIndex,
                                      !.previous = reqs[last].previous], a)
       IN  reqs' = [o \in Reqs |->
               IF o = r
               THEN [rq EXCEPT !.acts[Len(rq.acts)].async = later \/ reqs[r].acts[a].async]
               ELSE IF reqs[o].open
                    THEN [reqs[o] EXCEPT !.currentIndex = rq.currentIndex,
                                         !.previous = rq.previous]
                    ELSE reqs[o]]
    /\ UNCHANGED <<guards, tokenVars, routeVars, exampleVars>>

\* a running guard calls the proceed() it was given, in its synchronous
\* run or, later, from a callback: what next() invokes then runs outside
\* the call stack of the dispatch call
Proceed(r, a, later) ==
    /\ reqs[r].open
    /\ a \in 1..Len(reqs[r].acts)
    /\ reqs[r].acts[a].who # Handler
    /\ ~reqs[r].acts[a].returned
    /\ ProceedCalls(reqs[r], Len(reqs[r].acts)) < MaxProceed
    /\ LET rq == next(guards.list, [reqs[r] EXCEPT !.acts[a].proceeds = @ + 1], a)
       IN  reqs' = [reqs EXCEPT ![r] =
               [rq EXCEPT !.acts[Len(rq.acts)].async = later \/ reqs[r].acts[a].async]]
    /\ UNCHANGED <<guards, tokenVars, routeVars, exampleVars>>

\* Respond, but a response is also written for an invocation that returned
\* (a timer answering for a guard that left the request alone)
Respond_late(r, a) ==
    /\ reqs[r].open
    /\ a \in 1..Len(reqs[r].acts)
    /\ reqs[r].responses = <<>>
    /\ reqs' = [reqs EXCEPT ![r].responses = Append(@, a)]
    /\ UNCHANGED <<guards, tokenVars, routeVars, exampleVars>>

\* a running guard or handler writes the response; once the response is
\* sent no other can be
Respond(r, a) ==
    /\ reqs[r].open
    /\ a \in 1..Len(reqs[r].acts)
    /\ ~reqs[r].acts[a].returned
    /\ reqs[r].responses = <<>>
    /\ reqs' = [reqs EXCEPT ![r].responses = Append(@, a)]
    /\ UNCHANGED <<guards, tokenVars, routeVars, exampleVars>>

\* a guard returns and leaves nothing pending: it will not act again
Return(r, a) ==
    /\ reqs[r].open
    /\ a \in 1..Len(reqs[r].acts)
    /\ reqs[r].acts[a].who # Handler
    /\ ~reqs[r].acts[a].returned
    /\ reqs' = [reqs EXCEPT ![r].acts[a].returned = TRUE]
    /\ UNCHANGED <<guards, tokenVars, routeVars, exampleVars>>

MaxActs == 2 + MaxProceed

GuardNext ==
    \/ \E r \in Alone : Dispatch(r)
    \/ \E r \in Alone, a \in 1..MaxActs, later \in BOOLEAN : Proceed(r, a, later)
    \/ \E r \in Alone, a \in 1..MaxActs : Respond(r, a)
    \/ \E r \in Alone, a \in 1..MaxActs : Return(r, a)
    \/ \E r \in Alone, a \in 1..MaxActs, e \in Errors, later \in BOOLEAN : Throw(r, a, e, later)
    \/ \E r \in Alone : ErrorMiddleware(r)
    \/ \E r \in Alone, tracking \in Refs : RandomResolved(r, tracking)

\* requests on one guarded route, their guards and handler interleaved
PairNext ==
    \/ \E r \in Reqs : Dispatch(r)
    \/ \E r \in Reqs, a \in 1..MaxActs : Proceed(r, a, FALSE)
    \/ \E r \in Reqs, a \in 1..MaxActs : Respond(r, a)
    \/ \E r \in Reqs, a \in 1..MaxActs : Return(r, a)


(* =========================== example routes ============================ *)
Calls == 1..MaxCalls
NoCallYet == [state |-> "none", path |-> ""]

\* a client sends GET path; express has the request, its handler has not
\* run yet
Request(c, path) ==
    /\ calls[c].state = "none"
    /\ calls' = [calls EXCEPT ![c] = [state |-> "received", path |-> path]]
    /\ UNCHANGED <<testIncr, answers, tokenVars, guardVars, routeVars>>

\* Test1Handler, but the counter is incremented before it is read
Test1Handler_preIncrement(c) ==
    /\ calls[c] = [state |-> "received", path |-> API_V0.TEST_1]
    /\ answers' = Append(answers,
           [call |-> c, path |-> API_V0.TEST_1, status |-> 200,
            body |-> [test |-> "successful", number |-> testIncr + 1]])
    /\ testIncr' = testIncr + 1
    /\ calls' = [calls EXCEPT ![c].state = "answered"]
    /\ UNCHANGED <<tokenVars, guardVars, routeVars>>

\* the handler of GET /api/v0/test/1, a route without guards: it runs to
\* its end in one turn of the event loop,
\* res.json({test: "successful", number: testIncr++})
Test1Handler(c) ==
    /\ calls[c] = [state |-> "received", path |-> API_V0.TEST_1]
    /\ answers' = Append(answers,
           [call |-> c, path |-> API_V0.TEST_1, status |-> 200,
            body |-> [test |-> "successful", number |-> testIncr]])
    /\ testIncr' = testIncr + 1
    /\ calls' = [calls EXCEPT ![c].state = "answered"]
    /\ UNCHANGED <<tokenVars, guardVars, routeVars>>

\* the handler of GET /api/v0/test/2 throws a RestError in the dispatch
\* call, and the error middleware transmits it
Test2Handler(c) ==
    /\ calls[c] = [state |-> "received", path |-> API_V0.TEST_2]
    /\ LET sent == transmit([NoRequest EXCEPT !.open = TRUE], TEST_2_ERROR).sent
       IN  answers' = Append(answers,
               [call |-> c, path |-> API_V0.TEST_2, status |-> sent.status,
                body |-> sent.body])
    /\ calls' = [calls EXCEPT ![c].state = "answered"]
    /\ UNCHANGED <<testIncr, tokenVars, guardVars, routeVars>>

ExampleNext ==
    \/ \E c \in Calls, path \in {API_V0.TEST_1, API_V0.TEST_2} : Request(c, path)
    \/ \E c \in Calls : Test1Handler(c)
    \/ \E c \in Calls : Test2Handler(c)

(* ========================== route discovery =========================== *)
Methods == {"get", "post", "options", "patch", "delete"}

StringValue(v) == [type |-> "string", value |-> v]

\* an object with opts {path, method, guards?} and a handler function
RawRoute(method, path, guarded) ==
    [type |-> "object",
     opts |-> [type |-> "object", path |-> StringValue(path),
               method |-> StringValue(method), guards |-> guarded],
     handler |-> "function"]

GET_A == RawRoute("get", "/a", FALSE)
GET_A_GUARDED == RawRoute("get", "/a", TRUE)
POST_A == RawRoute("post", "/a", FALSE)
PUT_A == RawRoute("put", "/a", FALSE)

\* values that are not routes. A field that is missing reads as undefined;
\* the fields of null and of a value without opts are never read
NoValue == [type |-> "undefined", value |-> ""]
NoOpts == [type |-> "undefined", path |-> NoValue, method |-> NoValue, guards |-> FALSE]
NULL_ROUTE == [type |-> "null", opts |-> NoOpts, handler |-> "undefined"]
NOT_OBJECT == [type |-> "string", opts |-> NoOpts, handler |-> "undefined"]
NO_OPTS == [GET_A EXCEPT !.opts = NoOpts]
NULL_OPTS == [GET_A EXCEPT !.opts = [NoOpts EXCEPT !.type = "null"]]
NO_PATH == [GET_A EXCEPT !.opts.path = NoValue]
NO_HANDLER == [GET_A EXCEPT !.handler = "undefined"]

\* typeof: null is an "object"
TypeOf(type) == IF type = "null" THEN "object" ELSE type

\* what require(filePath) gives: it throws, or the export is one value or
\* an array of values
Module(loads, isArray, routes) == [loads |-> loads, isArray |-> isArray, routes |-> routes]

Modules ==
    {Module(TRUE, FALSE, <<r>>) : r \in {GET_A, GET_A_GUARDED, POST_A, PUT_A}}
    \cup {Module(TRUE, TRUE, rs) : rs \in {<<GET_A, GET_A>>, <<PUT_A, GET_A>>}}
    \cup {Module(FALSE, FALSE, <<>>)}
    \cup {Module(TRUE, FALSE, <<r>>) :
            r \in {NULL_ROUTE, NOT_OBJECT, NO_OPTS, NULL_OPTS, NO_PATH, NO_HANDLER}}
    \cup {Module(TRUE, TRUE, <<NULL_ROUTE, GET_A>>)}

\* directory entries: a file, an entry stat fails on, a subdirectory
FileItem(m) == [kind |-> "file", module |-> m, readable |-> TRUE, items |-> <<>>]
NoStatItem == [kind |-> "nostat", module |-> Module(FALSE, FALSE, <<>>),
               readable |-> FALSE, items |-> <<>>]
DirItem(readable, items) ==
    [kind |-> "dir", module |-> Module(FALSE, FALSE, <<>>),
     readable |-> readable, items |-> items]

LeafItems == {FileItem(m) : m \in Modules} \cup {NoStatItem}

\* the entries that bring n entries to the tree: one that is no directory or
\* a directory without entries, or a directory with its n - 1 entries
ItemsOfSize(n) ==
    IF n = 1
    THEN LeafItems \cup {DirItem(TRUE, <<>>), DirItem(FALSE, <<>>)}
    ELSE {DirItem(TRUE, items) : items \in [1..(n - 1) -> LeafItems]}

RECURSIVE TreesOfSize(_)
\* the route directories with n entries in all, subdirectories' included
TreesOfSize(n) ==
    IF n = 0 THEN {<<>>}
    ELSE UNION {{<<item>> \o rest : item \in ItemsOfSize(k), rest \in TreesOfSize(n - k)} :
                    k \in 1..n}

Trees == UNION {TreesOfSize(n) : n \in 0..MaxItems}

TaskIds == 0..MaxItems
NoTask == [state |-> "idle", i |-> 0, failed |-> FALSE]
NoServe == [called |-> FALSE, method |-> "", path |-> "", layer |-> 0]

\* the entries the task d walks
ItemsOf(d) == IF d = 0 THEN tree ELSE tree[d].items

\* isRoute(route) throws a TypeError: it reads route.opts of null, or
\* route.opts.path of null
isRouteThrows(route) ==
    \/ route.type = "null"
    \/ route.type = "object" /\ route.opts.type = "null"

\* isRoute(route), when it returns
isRoute(route) ==
    /\ TypeOf(route.type) = "object"
    /\ TypeOf(route.opts.type) = "object"
    /\ route.opts.path.type = "string"
    /\ route.opts.method.type = "string"
    /\ route.opts.method.value \in {"get", "post", "options", "patch", "delete"}
    /\ route.handler = "function"

\* loadRoute, but a route whose method and path are already registered is
\* dropped with a warning
loadRoute_firstWins(st, route, at) ==
    IF isRouteThrows(route) THEN [st EXCEPT !.thrown = TRUE]
    ELSE IF ~isRoute(route)
    THEN [st EXCEPT !.log = Append(@, "Not loading an invalid route in express")]
    ELSE IF \E l \in 1..Len(st.layers) :
                /\ st.layers[l].method = route.opts.method.value
                /\ st.layers[l].path = route.opts.path.value
    THEN [st EXCEPT !.log = Append(@, "Not loading a duplicate route")]
    ELSE [st EXCEPT !.layers = Append(@, [method |-> route.opts.method.value,
                                          path |-> route.opts.path.value,
                                          guarded |-> route.opts.guards,
                                          at |-> at])]

\* loadRoute(route), for the route found at `at` (file, position in the
\* export): st is the express stack, the log, and whether an exception
\* left the call
loadRoute(st, route, at) ==
    IF isRouteThrows(route) THEN [st EXCEPT !.thrown = TRUE]
    ELSE IF ~isRoute(route)
    THEN [st EXCEPT !.log = Append(@, "Not loading an invalid route in express")]
    ELSE [st EXCEPT !.layers = Append(@, [method |-> route.opts.method.value,
                                          path |-> route.opts.path.value,
                                          guarded |-> route.opts.guards,
                                          at |-> at])]

RECURSIVE loadRoutes(_, _, _, _)
\* the loop of loadFile over an array export
loadRoutes(st, routes, file, i) ==
    IF i > Len(routes) \/ st.thrown THEN st
    ELSE loadRoutes(loadRoute(st, routes[i], <<file, i>>), routes, file, i + 1)

\* loadFile(filePath). The export is taken as it is after rawFile.default
\* has replaced it; reading the default of a null export throws
loadFile(st, module, file) ==
    IF ~module.loads
    THEN [st EXCEPT !.log = Append(@, "Couldn't load route(s)")]
    ELSE IF ~module.isArray /\ module.routes[1].type = "null"
    THEN [st EXCEPT !.thrown = TRUE]
    ELSE IF module.isArray
    THEN loadRoutes(st, module.routes, file, 1)
    ELSE loadRoute(st, module.routes[1], <<file, 1>>)

\* new HttpServer(port): loadServer runs up to loadDirectory(API_DIR), which
\* waits for readdir
StartServer ==
    /\ startup = "init"
    /\ startup' = "loading"
    /\ tasks' = [tasks EXCEPT ![0] = [NoTask EXCEPT !.state = "readdir"]]
    /\ UNCHANGED <<tree, layers, log, served, tokenVars, guardVars, exampleVars>>

\* readdir answers: the loop starts, or the call rejects
Readdir(d) ==
    /\ tasks[d].state = "readdir"
    /\ tasks' = [tasks EXCEPT ![d] =
           IF d # 0 /\ ~tree[d].readable THEN [NoTask EXCEPT !.state = "rejected"]
           ELSE IF Len(ItemsOf(d)) = 0 THEN [NoTask EXCEPT !.state = "await"]
           ELSE [NoTask EXCEPT !.state = "loop", !.i = 1]]
    /\ UNCHANGED <<tree, layers, log, startup, served, tokenVars, guardVars, exampleVars>>

\* stat of entry i answers and the loop body runs: a warning when stat
\* failed, a new loadDirectory call for a directory, the whole of loadFile
\* for a file (an exception in it rejects the promise loadFile returned,
\* and the loop goes on); then the next entry, or Promise.all after the last
StatItem(d) ==
    /\ tasks[d].state = "loop"
    /\ LET i == tasks[d].i
           item == ItemsOf(d)[i]
           file == IF d = 0 THEN <<i>> ELSE <<d, i>>
           after == IF i = Len(ItemsOf(d))
                    THEN [tasks[d] EXCEPT !.state = "await"]
                    ELSE [tasks[d] EXCEPT !.i = i + 1]
           st == [layers |-> layers, log |-> log, thrown |-> FALSE]
       IN  IF item.kind = "nostat"
           THEN /\ log' = Append(log, "Couldn't load route(s)")
                /\ tasks' = [tasks EXCEPT ![d] = after]
                /\ UNCHANGED layers
           ELSE IF item.kind = "dir"
           THEN /\ tasks' = [tasks EXCEPT ![d] = after,
                                          ![i] = [NoTask EXCEPT !.state = "readdir"]]
                /\ UNCHANGED <<layers, log>>
           ELSE /\ layers' = loadFile(st, item.module, file).layers
                /\ log' = loadFile(st, item.module, file).log
                /\ tasks' = [tasks EXCEPT ![d] =
                       [after EXCEPT !.failed = @ \/ loadFile(st, item.module, file).thrown]]
    /\ UNCHANGED <<tree, startup, served, tokenVars, guardVars, exampleVars>>

\* the loadDirectory calls that task d started
Children(d) == IF d = 0 THEN {k \in 1..Len(tree) : tasks[k].state # "idle"} ELSE {}

\* Promise.all(recursivePromises) settles: rejected when a loadFile or a
\* loadDirectory call of the list is rejected, fulfilled when all are
\* fulfilled
Settle(d) ==
    /\ tasks[d].state = "await"
    /\ \/ /\ tasks[d].failed \/ \E k \in Children(d) : tasks[k].state = "rejected"
          /\ tasks' = [tasks EXCEPT ![d].state = "rejected"]
       \/ /\ ~tasks[d].failed
          /\ \A k \in Children(d) : tasks[k].state = "done"
          /\ tasks' = [tasks EXCEPT ![d].state = "done"]
    /\ UNCHANGED <<tree, layers, log, startup, served, tokenVars, guardVars, exampleVars>>

\* Listen, but without waiting for Promise.all: the server listens as soon
\* as the loop over the root directory has ended
Listen_early ==
    /\ startup = "loading"
    /\ tasks[0].state \in {"await", "done"}
    /\ ~tasks[0].failed
    /\ startup' = "listening"
    /\ UNCHANGED <<tree, tasks, layers, log, served, tokenVars, guardVars, exampleVars>>

\* the rest of loadServer, then listen(port)
Listen ==
    /\ startup = "loading"
    /\ tasks[0].state = "done"
    /\ startup' = "listening"
    /\ UNCHANGED <<tree, tasks, layers, log, served, tokenVars, guardVars, exampleVars>>

\* loadServer rejected: the constructor's then() never runs
LoadFailed ==
    /\ startup = "loading"
    /\ tasks[0].state = "rejected"
    /\ startup' = "failed"
    /\ UNCHANGED <<tree, tasks, layers, log, served, tokenVars, guardVars, exampleVars>>

\* the first layer after position `from` that matches, 0 when none does
NextMatch(method, path, from) ==
    LET matching == {l \in (from + 1)..Len(layers) :
                        layers[l].method = method /\ layers[l].path = path}
    IN  IF matching = {} THEN 0
        ELSE CHOOSE l \in matching : \A k \in matching : l <= k

\* express dispatches a request: the first matching layer handles it
Serve(method, path) ==
    /\ startup = "listening"
    /\ served' = [called |-> TRUE, method |-> method, path |-> path,
                  layer |-> NextMatch(method, path, 0)]
    /\ UNCHANGED <<tree, tasks, layers, log, startup, tokenVars, guardVars, exampleVars>>

\* the handler of a route without guards calls the next() express gave it:
\* the request goes on to the next matching layer
PassOn ==
    /\ served.called
    /\ served.layer # 0
    /\ ~layers[served.layer].guarded
    /\ served' = [served EXCEPT !.layer = NextMatch(served.method, served.path, served.layer)]
    /\ UNCHANGED <<tree, tasks, layers, log, startup, tokenVars, guardVars, exampleVars>>

RouteNext ==
    \/ StartServer
    \/ \E d \in TaskIds : Readdir(d)
    \/ \E d \in TaskIds : StatItem(d)
    \/ \E d \in TaskIds : Settle(d)
    \/ Listen
    \/ LoadFailed
    \/ \E method \in {"get", "post"}, path \in {"/a", "/b"} : Serve(method, path)
    \/ PassOn

(* ----------------------- reading a request's state -------------------- *)
GuardActs(rq) == {a \in 1..Len(rq.acts) : rq.acts[a].who # Handler}
HandlerActs(rq) == {a \in 1..Len(rq.acts) : rq.acts[a].who = Handler}
ActsOf(rq, g) == {a \in 1..Len(rq.acts) : rq.acts[a].who = g}

\* the invocation came from a proceed() call of an invocation that had
\* already called proceed() before
Redundant(rq, a) ==
    /\ rq.acts[a].by # 0
    /\ \E b \in 1..(a - 1) : rq.acts[b].by = rq.acts[a].by

\* a guard that is looking at the request: invoked, has not called
\* proceed(), has not returned
Active(rq, a) ==
    /\ rq.acts[a].who # Handler
    /\ rq.acts[a].proceeds = 0
    /\ ~rq.acts[a].returned

\* some guard returned without calling proceed() and without writing
Hung(rq) ==
    /\ rq.open
    /\ ~rq.error.raised
    /\ \E a \in GuardActs(rq) :
          /\ rq.acts[a].returned
          /\ rq.acts[a].proceeds = 0
          /\ rq.responses # <<a>>

\* a hung request on which nothing runs any more and nothing was written
Stuck(rq) ==
    /\ Hung(rq)
    /\ rq.responses = <<>>
    /\ HandlerActs(rq) = {}
    /\ \A a \in GuardActs(rq) : rq.acts[a].returned

(* =========================== specifications =========================== *)
\* no user yet, no token issued; no route, no request
TokenInit ==
    /\ entity = [u \in Users |-> NoUser]
    /\ table = [u \in Users |-> NoUser]
    /\ flake = 0
    /\ issued = {}
    /\ lastDecode = NoCall
    /\ guards = NoGuards
    /\ reqs = [r \in Reqs |-> NoRequest]
    /\ tree = <<>>
    /\ tasks = [d \in TaskIds |-> NoTask]
    /\ layers = <<>>
    /\ log = <<>>
    /\ startup = "init"
    /\ served = NoServe
    /\ testIncr = 0
    /\ calls = [c \in Calls |-> NoCallYet]
    /\ answers = <<>>

\* a route with any guard list, or with none, and no request yet
GuardInit ==
    /\ guards \in {[defined |-> TRUE, list |-> g] : g \in GuardLists} \cup {NoGuards}
    /\ reqs = [r \in Reqs |-> NoRequest]
    /\ entity = [u \in Users |-> NoUser]
    /\ table = [u \in Users |-> NoUser]
    /\ flake = 0
    /\ issued = {}
    /\ lastDecode = NoCall
    /\ tree = <<>>
    /\ tasks = [d \in TaskIds |-> NoTask]
    /\ layers = <<>>
    /\ log = <<>>
    /\ startup = "init"
    /\ served = NoServe
    /\ testIncr = 0
    /\ calls = [c \in Calls |-> NoCallYet]
    /\ answers = <<>>

\* a store in any state, and no call yet
BindingInit ==
    /\ table \in Stores
    /\ entity = table
    /\ flake = 0
    /\ issued = {}
    /\ lastDecode = NoCall
    /\ guards = NoGuards
    /\ reqs = [r \in Reqs |-> NoRequest]
    /\ tree = <<>>
    /\ tasks = [d \in TaskIds |-> NoTask]
    /\ layers = <<>>
    /\ log = <<>>
    /\ startup = "init"
    /\ served = NoServe
    /\ testIncr = 0
    /\ calls = [c \in Calls |-> NoCallYet]
    /\ answers = <<>>

\* the process has started: the counter is 0 and no request was made
ExampleInit ==
    /\ entity = [u \in Users |-> NoUser]
    /\ table = [u \in Users |-> NoUser]
    /\ flake = 0
    /\ issued = {}
    /\ lastDecode = NoCall
    /\ guards = NoGuards
    /\ reqs = [r \in Reqs |-> NoRequest]
    /\ tree = <<>>
    /\ tasks = [d \in TaskIds |-> NoTask]
    /\ layers = <<>>
    /\ log = <<>>
    /\ startup = "init"
    /\ served = NoServe
    /\ testIncr = 0
    /\ calls = [c \in Calls |-> NoCallYet]
    /\ answers = <<>>

\* a guarded route, and no request yet
PairInit ==
    /\ guards \in {[defined |-> TRUE, list |-> g] : g \in PairGuardLists}
    /\ reqs = [r \in Reqs |-> NoRequest]
    /\ entity = [u \in Users |-> NoUser]
    /\ table = [u \in Users |-> NoUser]
    /\ flake = 0
    /\ issued = {}
    /\ lastDecode = NoCall
    /\ tree = <<>>
    /\ tasks = [d \in TaskIds |-> NoTask]
    /\ layers = <<>>
    /\ log = <<>>
    /\ startup = "init"
    /\ served = NoServe
    /\ testIncr = 0
    /\ calls = [c \in Calls |-> NoCallYet]
    /\ answers = <<>>

\* a route directory with any content, nothing loaded yet
RouteInit ==
    /\ tree \in Trees
    /\ tasks = [d \in TaskIds |-> NoTask]
    /\ layers = <<>>
    /\ log = <<>>
    /\ startup = "init"
    /\ served = NoServe
    /\ testIncr = 0
    /\ calls = [c \in Calls |-> NoCallYet]
    /\ answers = <<>>
    /\ entity = [u \in Users |-> NoUser]
    /\ table = [u \in Users |-> NoUser]
    /\ flake = 0
    /\ issued = {}
    /\ lastDecode = NoCall
    /\ guards = NoGuards
    /\ reqs = [r \in Reqs |-> NoRequest]

\* the token codec and the user store
SpecToken ==
    /\ TokenInit
    /\ [][TokenNext]_vars

\* tokens resolved against a store in any state
SpecBinding ==
    /\ BindingInit
    /\ [][BindingNext]_vars

\* one guarded route serving requests
SpecGuard ==
    /\ GuardInit
    /\ [][GuardNext]_vars

\* the same, with the event loop running whatever can run
FairSpecGuard ==
    /\ SpecGuard
    /\ WF_vars(GuardNext)

\* one guarded route serving two requests at a time
SpecPair ==
    /\ PairInit
    /\ [][PairNext]_vars

\* the example routes of one process serving requests
SpecExample ==
    /\ ExampleInit
    /\ [][ExampleNext]_vars

\* route discovery at startup, then requests
SpecRoutes ==
    /\ RouteInit
    /\ [][RouteNext]_vars

(* ======================== token codec properties ====================== *)
Segments(token) == Split(token, DOT)

\* the row the store has for the subject of an issued token
RowOf(t) == findOne(table, t.snowflake)

\* the issued token is still signed with the salt the store has
StillValid(t) == RowOf(t).exists /\ RowOf(t).salt = t.salt

\* C1: a token made by createToken for a stored user decodes to a token
\* with that user's snowflake and that user, as long as the store has the
\* user with the salt that signed.
C1_TokenRoundTrip ==
    \A t \in issued :
        (lastDecode.called /\ lastDecode.token = t.token /\ StillValid(t)) =>
            /\ lastDecode.decoded.kind = "token"
            /\ lastDecode.decoded.snowflake = t.snowflake
            /\ lastDecode.decoded.user = RowOf(t)
            /\ lastDecode.decoded.user.id = t.id
            /\ lastDecode.user = RowOf(t)

C1_Witness ==
    /\ lastDecode.called
    /\ \E t \in issued :
          /\ lastDecode.token = t.token
          /\ StillValid(t)
          /\ lastDecode.decoded.kind = "token"
          /\ lastDecode.decoded.snowflake = t.snowflake

\* x is the issued token t with another third segment
Retagged(x, t) ==
    LET sx == Segments(x)
        st == Segments(t.token)
    IN  /\ Len(sx) = 3
        /\ sx[1] = st[1]
        /\ sx[2] = st[2]
        /\ sx[3] # st[3]

C3_RotationRevokes ==
    \A t \in issued :
        (lastDecode.called /\ lastDecode.token = t.token
              /\ RowOf(t).exists /\ RowOf(t).salt # t.salt) =>
            lastDecode.decoded = Null /\ lastDecode.user = Null

\* the token was good when issued, and the salt has been replaced since
C3_Witness ==
    /\ lastDecode.called
    /\ \E t \in issued :
          /\ lastDecode.token = t.token
          /\ t.stored = t.salt
          /\ RowOf(t).exists
          /\ RowOf(t).salt # t.salt
          /\ lastDecode.decoded = Null

\* the text is not three non-empty segments
NotThreeSegments(token) ==
    \/ Len(Segments(token)) # 3
    \/ \E i \in 1..Len(Segments(token)) : Segments(token)[i] = <<>>

\* C4: a text that is not three non-empty segments is rejected.
C4_MalformedRejection ==
    (lastDecode.called /\ NotThreeSegments(lastDecode.token)) =>
        lastDecode.decoded = Null

\* the ways a token fails, read off its segments and the store
WrongCount(seg) == Len(seg) # 3
BadTimestamp(seg) ==
    /\ ~WrongCount(seg)
    /\ ToNumber(decodeBase64(seg[2])).kind # "num"
UnknownUser(seg) ==
    /\ ~WrongCount(seg)
    /\ LET snowflake == decodeBase64(seg[1])
       IN  \A u \in Users : ~(table[u].exists /\ table[u].snowflake = snowflake)
BadSignature(seg) ==
    /\ ~WrongCount(seg)
    /\ LET snowflake == decodeBase64(seg[1])
       IN  \E u \in Users :
               /\ table[u].exists
               /\ table[u].snowflake = snowflake
               /\ seg[3] # getSignature(table[u].salt, seg[1] \o <<DOT>> \o seg[2])

Processed(d) ==
    IF tasks[d].state = "loop" THEN 1..(tasks[d].i - 1)
    ELSE IF tasks[d].state \in {"await", "done", "rejected"} THEN 1..tasks[d].i
    ELSE {}

\* the files loadFile was called on, as <<entry>> or <<directory, entry>>
LoadedFiles ==
    {<<i>> : i \in {j \in Processed(0) : tree[j].kind = "file"}}
    \cup UNION {{<<k, i>> : i \in {j \in Processed(k) : tree[k].items[j].kind = "file"}} :
                    k \in {j \in 1..Len(tree) : tree[j].kind = "dir"}}

ModuleAt(file) ==
    IF Len(file) = 1 THEN tree[file[1]].module ELSE tree[file[1]].items[file[2]].module

\* the value is null, or an object whose opts is null
NullInside(route) ==
    \/ route.type = "null"
    \/ route.type = "object" /\ route.opts.type = "null"

\* the positions of a loaded export that the loop of loadFile came to
Reached(file) ==
    {i \in 1..Len(ModuleAt(file).routes) :
        \A j \in 1..(i - 1) : ~NullInside(ModuleAt(file).routes[j])}

\* the values handed to loadRoute so far, as <<file, position>>
Found ==
    UNION {{<<file, i>> : i \in Reached(file)} : file \in LoadedFiles}

RouteAt(at) == ModuleAt(at[1]).routes[at[2]]

\* an object with an opts object that has a path and one of the five
\* methods, and with a handler
WellFormedRoute(route) ==
    /\ route.type = "object"
    /\ route.opts.type = "object"
    /\ route.opts.path.type = "string"
    /\ route.opts.method.type = "string"
    /\ route.opts.method.value \in Methods
    /\ route.handler = "function"
WellFormed(at) == WellFormedRoute(RouteAt(at))

LayersAt(at) == {l \in 1..Len(layers) : layers[l].at = at}
LayersFor(method, path) ==
    {l \in 1..Len(layers) : layers[l].method = method /\ layers[l].path = path}

\* entries and files that produce one warning each
FailedEntries ==
    Cardinality({i \in Processed(0) : tree[i].kind = "nostat"})
    + Cardinality({<<k, i>> \in (1..MaxItems) \X (1..MaxItems) :
                       /\ k <= Len(tree) /\ tree[k].kind = "dir"
                       /\ i \in Processed(k)
                       /\ tree[k].items[i].kind = "nostat"})
    + Cardinality({file \in LoadedFiles : ~ModuleAt(file).loads})

\* two of the routes found so far are well formed and have the same method
\* and path
DuplicateFound ==
    \E a, b \in Found :
        /\ a # b
        /\ WellFormed(a) /\ WellFormed(b)
        /\ RouteAt(a).opts.method = RouteAt(b).opts.method
        /\ RouteAt(a).opts.path = RouteAt(b).opts.path

Dirs == {k \in 1..Len(tree) : tree[k].kind = "dir"}
UnreadableDirs == {k \in Dirs : ~tree[k].readable}

\* the files of the tree, and the values they export
AllFiles ==
    {<<i>> : i \in {j \in 1..Len(tree) : tree[j].kind = "file"}}
    \cup UNION {{<<k, i>> : i \in {j \in 1..Len(tree[k].items) :
                                        tree[k].items[j].kind = "file"}} : k \in Dirs}
AllRoutes ==
    UNION {{<<file, i>> : i \in 1..Len(ModuleAt(file).routes)} : file \in AllFiles}

\* no loadDirectory call and no loadFile call was rejected
NothingRejected ==
    /\ startup # "failed"
    /\ \A d \in TaskIds : tasks[d].state # "rejected" /\ ~tasks[d].failed

\* C11: where every directory can be read, a module that does not load and
\* a value that is no well formed route are skipped with a warning: no
\* call is rejected, startup does not fail, and once the server listens
\* every well formed route of the tree is registered.
C11_MalformedNeverFatal ==
    UnreadableDirs = {} =>
        /\ NothingRejected
        /\ \A a \in Found : ~WellFormed(a) => Len(log) > 0
        /\ startup = "listening" =>
              \A a \in AllRoutes : WellFormed(a) => LayersAt(a) # {}

\* C12: where no exported value is null or has a null opts, a subdirectory
\* that cannot be listed is skipped: no call is rejected, startup does not
\* fail, and once the server listens every well formed route of the other
\* entries is registered.
C12_UnreadableNotFatal ==
    (\A a \in AllRoutes : ~NullInside(RouteAt(a))) =>
        /\ NothingRejected
        /\ startup = "listening" =>
              \A a \in AllRoutes : WellFormed(a) => LayersAt(a) # {}

\* the walk is over: every loadDirectory call is fulfilled and loadFile has
\* run on every file
WalkComplete ==
    /\ tasks[0].state = "done"
    /\ \A k \in Dirs : tasks[k].state = "done"
    /\ LoadedFiles = AllFiles

\* C13: the server listens, and a request is dispatched, only when the
\* walk is over, subdirectories included; no route is registered once the
\* server listens.
C13_DiscoveryPrecedesServing ==
    /\ []((startup = "listening" \/ served.called) => WalkComplete)
    /\ [][startup = "listening" => (layers' = layers /\ startup' = "listening")]_vars

\* a request is at a route that was found in a subdirectory
C13_Witness ==
    /\ startup = "listening"
    /\ served.called
    /\ served.layer # 0
    /\ Len(layers[served.layer].at[1]) = 2

(* ======================= guard chain properties ======================== *)
\* C6: on a route with guards [G1, G2], when G1 calls proceed() once and
\* writes nothing and G2 writes a rejection without calling proceed(), the
\* handler is not invoked and the response is the one G2 wrote.
C6_Case(rq) ==
    /\ guards.defined
    /\ guards.list = <<"G1", "G2">>
    /\ rq.open
    /\ \A a \in ActsOf(rq, "G1") : rq.acts[a].proceeds <= 1 /\ rq.responses # <<a>>
    /\ \E a \in ActsOf(rq, "G1") : rq.acts[a].proceeds = 1
    /\ \A a \in ActsOf(rq, "G2") : rq.acts[a].proceeds = 0
    /\ \E a \in ActsOf(rq, "G2") : rq.responses = <<a>>

C6_GuardChainRejection ==
    \A r \in Reqs :
        C6_Case(reqs[r]) =>
            /\ HandlerActs(reqs[r]) = {}
            /\ Len(reqs[r].responses) = 1
            /\ reqs[r].acts[reqs[r].responses[1]].who = "G2"

C6_Witness ==
    \E r \in Reqs :
        /\ C6_Case(reqs[r])
        /\ \A a \in GuardActs(reqs[r]) : reqs[r].acts[a].returned

\* C7: guards are invoked in declaration order, guard i+1 only after guard i
\* called proceed(), and no two guards of a chain look at the request at
\* the same time.
C7_GuardOrdering ==
    \A r \in Reqs :
        LET rq == reqs[r] IN
        /\ \A a, b \in GuardActs(rq) : a < b => rq.acts[a].pos < rq.acts[b].pos
        /\ \A a \in GuardActs(rq) :
              rq.acts[a].pos > 1 =>
                  \E b \in GuardActs(rq) :
                      /\ b < a
                      /\ rq.acts[b].pos = rq.acts[a].pos - 1
                      /\ rq.acts[b].proceeds >= 1
        /\ \A a, b \in GuardActs(rq) : (Active(rq, a) /\ Active(rq, b)) => a = b

\* C8: a redundant proceed() goes to the terminal handler, the same guard
\* reference is never invoked twice in succession, and the chain invokes no
\* more guards than the list has.
C8_ReentrancyGuard ==
    \A r \in Reqs :
        LET rq == reqs[r] IN
        /\ \A a \in 1..Len(rq.acts) : Redundant(rq, a) => rq.acts[a].who = Handler
        /\ \A a, b \in GuardActs(rq) :
              (a < b /\ \A c \in GuardActs(rq) : ~(a < c /\ c < b))
                  => rq.acts[a].who # rq.acts[b].who
        /\ Cardinality(GuardActs(rq)) <= Len(guards.list)

\* C9 as claimed: a request with a hung guard is answered in the end.
C9_HangingGuardTimeout ==
    \A r \in Reqs : Hung(reqs[r]) ~> (reqs[r].responses # <<>>)

\* C9 as the code has it: no timer exists. Once every invoked guard has
\* returned, one of them without proceed() and without a response, and the
\* handler was not invoked, the request stays as it is: unanswered.
C9_HungStaysUnanswered ==
    [][\A r \in Reqs : Stuck(reqs[r]) => reqs'[r] = reqs[r]]_vars

C9_Witness == \E r \in Reqs : Stuck(reqs[r])

(* ====================== error boundary properties ===================== *)
\* the error of request rq was handed to the error middleware, which has
\* finished with it
AtBoundary(rq) ==
    /\ rq.error.raised
    /\ rq.error.caught
    /\ rq.boundary \in {"done", "failed"}

GenericEnvelope(tracking) ==
    [type |-> "object",
     message |-> <<"Internal error occurred. Tracking number: ", tracking>>,
     code |-> 1002]

\* C14: for an error at the boundary that is not a RestError the response
\* has status 500 and the fixed message with a tracking reference and code
\* 1002 as its only content, the same reference is in the server log beside
\* the error, and nothing of the error is in the response.
C14_InternalErrorSanitised ==
    \A r \in Reqs :
        (AtBoundary(reqs[r]) /\ ~reqs[r].error.err.rest) =>
            /\ reqs[r].tracking \in Refs
            /\ reqs[r].sent = [written |-> TRUE, status |-> 500,
                               body |-> GenericEnvelope(reqs[r].tracking)]
            /\ Len(reqs[r].errlog) = 4
            /\ reqs[r].errlog[2] = <<"tracking ref: ", reqs[r].tracking>>
            /\ reqs[r].errlog[3] = reqs[r].error.err

\* where the boundary is the first to write the response, C14 is as claimed
C14_FirstResponse ==
    \A r \in Reqs :
        (AtBoundary(reqs[r]) /\ ~reqs[r].error.err.rest /\ reqs[r].boundary = "done") =>
            /\ reqs[r].tracking \in Refs
            /\ reqs[r].sent = [written |-> TRUE, status |-> 500,
                               body |-> GenericEnvelope(reqs[r].tracking)]
            /\ reqs[r].responses = <<0>>
            /\ Len(reqs[r].errlog) = 4
            /\ reqs[r].errlog[2] = <<"tracking ref: ", reqs[r].tracking>>
            /\ reqs[r].errlog[3] = reqs[r].error.err

C16_ErrorsReachBoundary ==
    \A r \in Reqs :
        reqs[r].error.raised => reqs[r].boundary # "idle"

\* errors thrown inside the dispatch call are handed to the error middleware
C16_SynchronousReach ==
    \A r \in Reqs :
        (reqs[r].error.raised /\ reqs[r].error.caught) => reqs[r].boundary # "idle"

(* ===================== properties of the chain state =================== *)
\* the chain state a request has after n calls of its own next closure
RECURSIVE ChainAfter(_, _)
ChainAfter(g, n) ==
    IF n = 0 THEN [NoRequest EXCEPT !.open = TRUE]
    ELSE next(g, ChainAfter(g, n - 1), 0)

\* the position of request rq in its chain is what its own calls of next
\* made it: one for the dispatch and one for each proceed() of its guards
OwnPosition(rq) ==
    LET n == Len(rq.acts)
        own == ChainAfter(guards.list, n)
    IN  /\ n = 1 + ProceedCalls(rq, n)
        /\ rq.currentIndex = own.currentIndex
        /\ rq.previous = own.previous
        /\ \A k \in 1..n : /\ rq.acts[k].who = own.acts[k].who
                            /\ rq.acts[k].pos = own.acts[k].pos

\* C17: of requests interleaved on one guarded route each has its own index
\* and previous guard: a step of one request leaves the others as they
\* are, and the guard a request runs next, and whether its handler is
\* invoked, follow from its own proceed() calls alone.
C17_ChainIsolation ==
    /\ [](\A r \in Reqs : reqs[r].open => OwnPosition(reqs[r]))
    /\ [][\A r \in Reqs :
             reqs'[r] # reqs[r] => \A o \in Reqs \ {r} : reqs'[o] = reqs[o]]_vars

\* one request was rejected by its first guard while the other went on to
\* the handler
C17_Witness ==
    \E r \in Reqs, o \in Reqs :
        /\ r # o
        /\ reqs[r].open /\ reqs[o].open
        /\ reqs[r].responses = <<1>>
        /\ Len(reqs[r].acts) = 1
        /\ reqs[r].acts[1].returned
        /\ \E k \in 1..Len(reqs[o].acts) : reqs[o].acts[k].who = Handler
        /\ reqs[o].currentIndex > reqs[r].currentIndex

(* ======================= example route properties ====================== *)
\* the responses of GET /api/v0/test/1, in the order sent
Test1Answers == SelectSeq(answers, LAMBDA a : a.path = "/api/v0/test/1")

\* C18: the k-th request served by GET /api/v0/test/1 gets status 200 and
\* {test: "successful", number: k - 1}: the numbers start at 0, grow by one
\* with each request, and no two requests get the same number.
C18_CounterRoute ==
    /\ \A k \in 1..Len(Test1Answers) :
           /\ Test1Answers[k].status = 200
           /\ Test1Answers[k].body = [test |-> "successful", number |-> k - 1]
    /\ \A j \in 1..Len(Test1Answers), k \in 1..Len(Test1Answers) :
           j # k => /\ Test1Answers[j].call # Test1Answers[k].call
                    /\ Test1Answers[j].body.number # Test1Answers[k].body.number
    /\ testIncr = Len(Test1Answers)

\* two requests were served by the counter route, the one received last
\* first, with a request to the other route answered between them
C18_Witness ==
    /\ Len(answers) = 3
    /\ Len(Test1Answers) = 2
    /\ answers[2].path = "/api/v0/test/2"
    /\ answers[1].call > answers[3].call
    /\ answers[3].body.number = 1

(* ===================== properties of the handler call ================== *)
HandlerCalls(rq) == {k \in 1..Len(rq.acts) : rq.acts[k].who = Handler}

\* C19: on a guarded route the handler is invoked only when every position
\* of the guard list was invoked and its guard called proceed(), whatever
\* the list (the same reference at adjacent positions included) and
\* whatever the guards do (proceed() called more than once included).
C19_AuthorizationComplete ==
    \A r \in Reqs :
        (reqs[r].open /\ guards.defined /\ HandlerCalls(reqs[r]) # {}) =>
            \A i \in 1..Len(guards.list) :
                \E k \in 1..Len(reqs[r].acts) :
                    /\ reqs[r].acts[k].pos = i
                    /\ reqs[r].acts[k].proceeds >= 1

\* with guards that are all different and call proceed() at most once the
\* handler is invoked only after every guard proceeded
C19_SingleProceed ==
    \A r \in Reqs :
        (/\ reqs[r].open /\ guards.defined /\ HandlerCalls(reqs[r]) # {}
         /\ \A i \in 1..Len(guards.list), j \in 1..Len(guards.list) :
                i # j => guards.list[i] # guards.list[j]
         /\ \A k \in 1..Len(reqs[r].acts) : reqs[r].acts[k].proceeds <= 1) =>
            \A i \in 1..Len(guards.list) :
                \E k \in 1..Len(reqs[r].acts) :
                    /\ reqs[r].acts[k].pos = i
                    /\ reqs[r].acts[k].proceeds >= 1

\* C20: on a guarded route the handler is invoked at most once for a
\* request, whatever the guards do, guards that call proceed() several
\* times included.
C20_HandlerAtMostOnce ==
    \A r \in Reqs :
        (reqs[r].open /\ guards.defined) => Cardinality(HandlerCalls(reqs[r])) <= 1

(* ===================== properties of the token subject ================= *)
\* the row u is the one the token names and is signed for: its snowflake is
\* the decoded first segment, and its salt signs segments 1 and 2 to the
\* third segment
BoundTo(token, row) ==
    LET chunks == Split(token, DOT)
    IN  /\ Len(chunks) = 3
        /\ row.exists
        /\ row.snowflake = decodeBase64(chunks[1])
        /\ getSignature(row.salt, chunks[1] \o <<DOT>> \o chunks[2]) = chunks[3]

\* C21: getUser(token) returns null or the stored user whose snowflake is
\* the decoded first segment of the token and whose salt now signs segments
\* 1 and 2 to the given signature; a token issued for one user is never
\* resolved to another user.
C21_SubjectBinding ==
    lastDecode.called =>
        /\ \/ lastDecode.user = Null
           \/ \E u \in DOMAIN table :
                  /\ lastDecode.user = table[u]
                  /\ BoundTo(lastDecode.token, table[u])
        /\ \A u \in Stored :
               (lastDecode.token \in IssuedFor(u) /\ lastDecode.user # Null) =>
                   lastDecode.user.id = u

\* a token issued for the second user is resolved to it while the first
\* user is in the store with another salt
C21_Witness ==
    /\ lastDecode.called
    /\ lastDecode.token \in IssuedFor(2)
    /\ lastDecode.user # Null
    /\ lastDecode.user.id = 2
    /\ table[1].exists
    /\ table[1].salt # table[2].salt
====
